---------------------------- MODULE Spec2Model ----------------------------
(***************************************************************************)
(* Model of src/js/storage.js: the Radix codec, the Names / Tracks /       *)
(* Images tables, the User statistics record and the Storage load/save     *)
(* glue over localStorage; and of the Last.fm API module, one API request  *)
(* with its retries.                                                       *)
(*                                                                         *)
(* Representation.                                                         *)
(*   - A JavaScript string is the sequence of its UTF-16 char codes.       *)
(*   - A JavaScript value that may be a number, a string or undefined is   *)
(*     a record [t, n, s]: t is its typeof, n its number, s its string.    *)
(*     Numbers are integers (the tables only ever hold integers).          *)
(*   - A function that may throw yields [ok, val]: ok = FALSE is a throw.  *)
(***************************************************************************)
EXTENDS Integers, Sequences, FiniteSets, TLC

VARIABLES
    names,    \* Names:  [number : id -> name,   string : name -> id]
    tracks,   \* Tracks: [number : id -> triple, string : "a,b,c" -> id]
    images,   \* ArtistImages ("a") and AlbumImages ("b"), each
              \*         [number : id -> obj,    string : name -> obj]
    user,     \* one User: [key, stats, loved]
    store,    \* localStorage: key -> string, or undefined where unset
    issued,   \* history: the ids Names.add / Tracks.add returned since the
              \*         table was last rebuilt by _decompress
    saved,    \* history: per object, whether its last successful save is
              \*         more recent than every change of the object
    last,     \* the last call: [op, on, args, out] (out is its outcome)
    request   \* one LastFM API request: its ajax call, timer and promise

vars == <<names, tracks, images, user, store, issued, saved, last, request>>

---------------------------------------------------------------------------
(* Bounds of the model *)

MaxWidth == 4     \* the widest padding given to Radix.fromNumber

MaxNames == 2     \* Names.add is not called on a table of this many names

MaxTracks == 2    \* Tracks.add is not called on a table of this many tracks

MaxImages == 2    \* add / addUrl are not called on an image table of this many records

MaxAttempts == 7  \* no ajax call is made after this many of one API request

---------------------------------------------------------------------------
(* JavaScript values *)

Num(n) == [t |-> "number", n |-> n, s |-> <<>>]

Str(s) == [t |-> "string", n |-> 0, s |-> s]

Undef == [t |-> "undefined", n |-> 0, s |-> <<>>]

Bool(b) == [t |-> "boolean", n |-> IF b THEN 1 ELSE 0, s |-> <<>>]

\* The outcome of a call: a returned value, or a throw.  A throw carries
\* the dummy value of the type the call would have returned.
Ok(v) == [ok |-> TRUE, val |-> v, err |-> ""]

ThrowS(e) == [ok |-> FALSE, val |-> <<>>, err |-> e]

ThrowN(e) == [ok |-> FALSE, val |-> 0, err |-> e]

ThrowV(e) == [ok |-> FALSE, val |-> Undef, err |-> e]

Max(S) == CHOOSE x \in S : \A y \in S : y <= x

\* A JavaScript object used as a map: a function on the keys it holds.
\* (Keys found on Object.prototype are not modelled.)
EmptyMap == [k \in {} |-> 0]

Put(f, k, v) == [x \in DOMAIN f \cup {k} |-> IF x = k THEN v ELSE f[x]]

\* The increasing sequence of the elements of a finite set of integers:
\* the order for-in visits integer keys in.
RECURSIVE Sorted(_)
Sorted(S) ==
    IF S = {} THEN <<>>
    ELSE LET m == Max(S) IN Append(Sorted(S \ {m}), m)

\* String(n) of an integer.
RECURSIVE DecimalDigits(_)
DecimalDigits(n) ==
    IF n < 10 THEN <<48 + n>> ELSE Append(DecimalDigits(n \div 10), 48 + (n % 10))

ToStr(n) == IF n < 0 THEN <<45>> \o DecimalDigits(0 - n) ELSE DecimalDigits(n)

\* String(v): the property key a value is used as.
UndefinedStr == <<117, 110, 100, 101, 102, 105, 110, 101, 100>>

PropertyKey(v) ==
    CASE v.t = "string" -> v.s
      [] v.t = "number" -> ToStr(v.n)
      [] OTHER -> UndefinedStr

\* Array.prototype.join over an array of strings.
RECURSIVE Join(_, _)
Join(array, sep) ==
    IF array = <<>> THEN <<>>
    ELSE IF Len(array) = 1 THEN array[1]
    ELSE array[1] \o sep \o Join(Tail(array), sep)

\* String.prototype.split on a one-character separator.
RECURSIVE Split(_, _)
Split(s, sep) ==
    IF \A i \in 1..Len(s) : s[i] # sep THEN <<s>>
    ELSE LET i == CHOOSE j \in 1..Len(s) :
                      s[j] = sep /\ \A k \in 1..(j - 1) : s[k] # sep
         IN  <<SubSeq(s, 1, i - 1)>> \o Split(SubSeq(s, i + 1, Len(s)), sep)

\* storage.js:16-21 and the char codes of the literals the code uses
blank == <<>>

comma == 44

newline == 10

Code0 == 48

Code9 == 57

\* The characters a RegExp "." does not match (no s flag): LF, CR, LS, PS.
LineTerminators == {10, 13, 8232, 8233}

\* text.match(/.{k}/g): the successive non-overlapping runs of k characters
\* none of which is a line terminator, scanning left to right; a position
\* where no such run starts is skipped.  (null, when nothing matches, is
\* turned into [] by every caller and is modelled as <<>>.)
RECURSIVE MatchDots(_, _)
MatchDots(s, k) ==
    IF Len(s) < k THEN <<>>
    ELSE IF \A i \in 1..k : s[i] \notin LineTerminators
         THEN <<SubSeq(s, 1, k)>> \o MatchDots(SubSeq(s, k + 1, Len(s)), k)
         ELSE MatchDots(Tail(s), k)

---------------------------------------------------------------------------
(* Radix, storage.js:698-766 *)

Radix_offset == 48

Radix_length == 10240

IsDigits(s) == \A i \in 1..Len(s) : s[i] >= Code0 /\ s[i] <= Code9

RECURSIVE DecimalValue(_)
DecimalValue(s) ==
    IF s = <<>> THEN 0
    ELSE 10 * DecimalValue(SubSeq(s, 1, Len(s) - 1)) + (s[Len(s)] - Code0)

\* Number(v) for the values of the model; [ok |-> FALSE] stands for NaN.
\* Number("") is 0, Number of a run of decimal digits is its value,
\* Number of any other string of the model and Number(undefined) are NaN.
ToNumber(v) ==
    CASE v.t = "number" -> Ok(v.n)
      [] v.t = "string" -> IF IsDigits(v.s) THEN Ok(DecimalValue(v.s)) ELSE ThrowN("NaN")
      [] OTHER -> ThrowN("NaN")

\* Rixits with every rixit appended instead of prepended.
RECURSIVE RixitsAppended(_)
RixitsAppended(residual) ==
    LET glyph == (residual % Radix_length) + Radix_offset
        rest == residual \div Radix_length
    IN  IF rest = 0 THEN <<glyph>> ELSE <<glyph>> \o RixitsAppended(rest)

\* The loop of fromNumber (storage.js:732-742): least significant rixit
\* first, each prepended to the result.
RECURSIVE Rixits(_)
Rixits(residual) ==
    LET glyph == (residual % Radix_length) + Radix_offset
        rest == residual \div Radix_length
    IN  IF rest = 0 THEN <<glyph>> ELSE Append(Rixits(rest), glyph)

Zeros(k) == [i \in 1..k |-> Code0]

\* fromNumber keeping the last `padding` glyphs instead of throwing.
fromNumberTruncating(number, padding) ==
    LET n == ToNumber(number)
    IN  IF ~n.ok THEN ThrowS("The input is not valid")
        ELSE IF n.val < 0 THEN ThrowS("Can't represent negative numbers now")
        ELSE LET result == Rixits(n.val)
                 pad == IF padding = 0 THEN 1 ELSE padding
             IN  IF pad < Len(result)
                 THEN Ok(SubSeq(result, Len(result) - pad + 1, Len(result)))
                 ELSE Ok(Zeros(pad - Len(result)) \o result)

fromNumber(number, padding) ==
    LET n == ToNumber(number)
    IN  IF ~n.ok THEN ThrowS("The input is not valid")
        ELSE IF n.val < 0 THEN ThrowS("Can't represent negative numbers now")
        ELSE LET result == Rixits(n.val)
                 pad == IF padding = 0 THEN 1 ELSE padding
             IN  IF pad < Len(result) THEN ThrowS("Radix result is longer then padding")
                 ELSE IF Len(result) >= pad THEN Ok(result)
                 ELSE Ok(Zeros(pad - Len(result)) \o result)

\* toNumber of a string (storage.js:754-765); string.split of undefined
\* is a TypeError.
RECURSIVE toNumberLoop(_, _)
toNumberLoop(result, string) ==
    IF string = <<>> THEN result
    ELSE toNumberLoop((result * Radix_length) + string[1] - Radix_offset, Tail(string))

toNumber(v) ==
    IF v.t = "string" THEN Ok(toNumberLoop(0, v.s)) ELSE ThrowN("TypeError")

compressNumber(number, padding) == fromNumber(number, padding)

decompressNumber(text) == toNumber(text)

---------------------------------------------------------------------------
(* Data, storage.js:63-72.  number is a JavaScript array, which may have *)
(* holes: a map from the indices it holds to their elements, its length   *)
(* one more than the largest index.  string is the map from property      *)
(* names to values.                                                        *)

Length(number) == IF DOMAIN number = {} THEN 0 ELSE Max(DOMAIN number) + 1

EmptyTable == [number |-> EmptyMap, string |-> EmptyMap]

\* lookup(key) = this[typeof key][key]: a number key reads the array, a
\* string key the map; [found, val], found = FALSE is the undefined of a
\* key the index does not hold.
Data_lookup(t, key) ==
    IF key.t = "number"
    THEN IF key.n \in DOMAIN t.number
         THEN [found |-> TRUE, val |-> t.number[key.n]]
         ELSE [found |-> FALSE, val |-> <<>>]
    ELSE IF key.s \in DOMAIN t.string
         THEN [found |-> TRUE, val |-> t.string[key.s]]
         ELSE [found |-> FALSE, val |-> 0]

---------------------------------------------------------------------------
(* Names, storage.js:257-329: number is id -> name, string is name -> id. *)

\* Names.lookup as a JavaScript value: a name, an id, or undefined.
Names_lookup(t, key) ==
    LET v == Data_lookup(t, key)
    IN  IF ~v.found THEN Undef
        ELSE IF key.t = "number" THEN Str(v.val) ELSE Num(v.val)

\* Names.add storing the name one slot past the end of the array.
Names_addSkipping(t, name) ==
    LET id == Length(t.number) + 1
    IN  [table |-> [number |-> Put(t.number, id, name),
                    string |-> Put(t.string, name, id)],
         ret |-> id]

\* add(name): [table, ret]
Names_add(t, name) ==
    LET id == Length(t.number)
    IN  [table |-> [number |-> Put(t.number, id, name),
                    string |-> Put(t.string, name, id)],
         ret |-> id]

\* The elements of an array of strings in index order, a hole read as the
\* empty string (as Array.prototype.join reads it).
Elements(number) ==
    [i \in 1..Length(number) |->
        IF (i - 1) \in DOMAIN number THEN number[i - 1] ELSE <<>>]

Names_compress(t) == Ok(Join(Elements(t.number), <<newline>>))

RECURSIVE Names_decompressLoop(_, _, _)
Names_decompressLoop(t, array, index) ==
    IF index > Len(array) THEN t
    ELSE Names_decompressLoop(
             [number |-> Put(t.number, Length(t.number), array[index]),
              string |-> Put(t.string, array[index], Length(t.number))],
             array, index + 1)

\* _decompress(text): [table, out]; text is a string or undefined
Names_decompress(text) ==
    LET array == IF text.t = "string" /\ text.s # <<>>
                 THEN Split(text.s, newline) ELSE <<>>
        t == Names_decompressLoop(EmptyTable, array, 1)
    IN  [table |-> t, out |-> Ok(Bool(Length(t.number) = Len(array)))]

---------------------------------------------------------------------------
(* Tracks, storage.js:334-451.  A track is the array of its three name    *)
(* ids; number is id -> track, string maps the comma-joined triple to     *)
(* the track id.                                                          *)

RECURSIVE JoinNumbers(_, _)
JoinNumbers(array, sep) ==
    IF array = <<>> THEN <<>>
    ELSE IF Len(array) = 1 THEN ToStr(array[1])
    ELSE ToStr(array[1]) \o sep \o JoinNumbers(Tail(array), sep)

Tracks_lookup(t, key) == Data_lookup(t, key)

Tracks_add(t, track) ==
    LET id == Length(t.number)
    IN  [table |-> [number |-> Put(t.number, id, track),
                    string |-> Put(t.string, JoinNumbers(track, <<comma>>), id)],
         ret |-> id]

\* The inner loop of _compress: the 2-glyph codes of the components of one
\* track; the first compressNumber that throws ends it.
RECURSIVE Tracks_compressTrack(_, _)
Tracks_compressTrack(track, nameIndex) ==
    IF nameIndex > Len(track) THEN Ok(<<>>)
    ELSE LET code == compressNumber(Num(track[nameIndex]), 2)
         IN  IF ~code.ok THEN code
             ELSE LET rest == Tracks_compressTrack(track, nameIndex + 1)
                  IN  IF rest.ok THEN Ok(code.val \o rest.val) ELSE rest

\* The outer loop of _compress, over the indices below number.length;
\* reading .length of a hole is a TypeError.
RECURSIVE Tracks_compressLoop(_, _)
Tracks_compressLoop(number, trackIndex) ==
    IF trackIndex >= Length(number) THEN Ok(<<>>)
    ELSE IF trackIndex \notin DOMAIN number THEN ThrowS("TypeError")
    ELSE LET one == Tracks_compressTrack(number[trackIndex], 1)
         IN  IF ~one.ok THEN one
             ELSE LET rest == Tracks_compressLoop(number, trackIndex + 1)
                  IN  IF rest.ok THEN Ok(one.val \o rest.val) ELSE rest

Tracks_compress(t) == Tracks_compressLoop(t.number, 0)

\* The loop of _decompress: three chunks per pass; a missing chunk is
\* undefined and decompressNumber(undefined) throws, leaving the table as
\* built so far.  At its end the call returns whether the number of tracks
\* equals the number of chunks.
RECURSIVE Tracks_decompressLoop(_, _, _)
Tracks_decompressLoop(t, array, trackIndex) ==
    IF trackIndex > Len(array)
    THEN [table |-> t, out |-> Ok(Bool(Length(t.number) = Len(array)))]
    ELSE IF trackIndex + 2 > Len(array)
    THEN [table |-> t, out |-> ThrowV("TypeError")]
    ELSE LET track == <<decompressNumber(Str(array[trackIndex])).val,
                        decompressNumber(Str(array[trackIndex + 1])).val,
                        decompressNumber(Str(array[trackIndex + 2])).val>>
         IN  Tracks_decompressLoop(
                 [number |-> Put(t.number, Length(t.number), track),
                  string |-> Put(t.string, JoinNumbers(track, <<comma>>),
                                 Length(t.number))],
                 array, trackIndex + 3)

Tracks_decompress(text) ==
    LET array == IF text.t = "string" /\ text.s # <<>>
                 THEN MatchDots(text.s, 2) ELSE <<>>
    IN  Tracks_decompressLoop(EmptyTable, array, 1)

---------------------------------------------------------------------------
(* Images, storage.js:75-226, and its two instances ArtistImages ("a")    *)
(* and AlbumImages ("b"), storage.js:228-254.                             *)
(* number is the sparse array id -> obj: a map whose keys are the values  *)
(* used as index (Num(i), an element; Undef, the property "undefined").   *)
(* string is the map name -> obj, its keys the property names.            *)

Images_url == <<104, 116, 116, 112, 58, 47, 47, 117, 115, 101, 114, 115, 101, 114, 118, 101, 45, 97, 107, 46, 108, 97, 115, 116, 46, 102, 109, 47, 115, 101, 114, 118, 101, 47>>

png == <<112, 110, 103>>

jpg == <<106, 112, 103>>

jpeg == <<106, 112, 101, 103>>

gif == <<103, 105, 102>>

Images_compressSizes ==
    [k \in {ToStr(34), ToStr(64), ToStr(126), ToStr(252), ToStr(300)} |->
        CASE k = ToStr(34) -> 1 [] k = ToStr(64) -> 2 [] k = ToStr(126) -> 3
          [] k = ToStr(252) -> 4 [] OTHER -> 5]

Images_compressTypes ==
    [k \in {png, jpg, jpeg, gif} |->
        CASE k = png -> 10 [] k = jpg -> 20 [] k = jpeg -> 30 [] OTHER -> 40]

Images_types ==
    [k \in {10, 20, 30, 40} |->
        CASE k = 10 -> png [] k = 20 -> jpg [] k = 30 -> jpeg [] OTHER -> gif]

\* _sizes of the instance: the label of a size class in a URL
Images_sizes(inst) ==
    IF inst = "a"
    THEN [k \in 1..5 |->
            CASE k = 1 -> ToStr(34) [] k = 2 -> ToStr(64) [] k = 3 -> ToStr(126)
              [] k = 4 -> ToStr(252) [] OTHER -> <<51, 48, 48, 120, 51, 48, 48>>]
    ELSE [k \in 1..5 |->
            CASE k = 1 -> <<51, 52, 115>> [] k = 2 -> <<54, 52, 115>> [] k = 3 -> ToStr(126)
              [] k = 4 -> ToStr(252) [] OTHER -> <<51, 48, 48, 120, 51, 48, 48>>]

\* add(id, size, hash, type): [table, out]; out.val is the id returned
Images_add(t, nm, id, size, hash, type) ==
    IF id.t \notin {"number", "string"}
    THEN [table |-> t, out |-> ThrowV("Incorrect parameters")]
    ELSE LET name == IF id.t = "number" THEN Names_lookup(nm, id) ELSE id
             nid == IF id.t = "number" THEN id ELSE Names_lookup(nm, id)
         IN  IF PropertyKey(type) \notin DOMAIN Images_compressTypes
             THEN [table |-> t,
                   out |-> ThrowV("Url's extension type isn't recognized")]
             ELSE IF PropertyKey(size) \notin DOMAIN Images_compressSizes
             THEN [table |-> t, out |-> ThrowV("Url's size isn't recognized")]
             ELSE LET obj == [id |-> nid,
                              size |-> Images_compressSizes[PropertyKey(size)],
                              hash |-> hash,
                              type |-> Images_compressTypes[PropertyKey(type)]]
                  IN  [table |-> [number |-> Put(t.number, nid, obj),
                                  string |-> Put(t.string, PropertyKey(name), obj)],
                       out |-> Ok(nid)]

Lower(c) == IF c >= 65 /\ c <= 90 THEN c + 32 ELSE c

StartsWith(s, word) ==
    /\ Len(s) >= Len(word)
    /\ \A i \in 1..Len(word) : Lower(s[i]) = word[i]

IsDigit(c) == c >= Code0 /\ c <= Code9

\* url.match(/\d+|(jpg|jpeg|png|gif)/gi): the successive tokens, each a
\* maximal run of digits or one of the four extensions in any letter case.
RECURSIVE UrlTokens(_)
UrlTokens(s) ==
    IF s = <<>> THEN <<>>
    ELSE IF IsDigit(s[1])
    THEN LET n == IF \A i \in 1..Len(s) : IsDigit(s[i]) THEN Len(s)
                  ELSE (CHOOSE j \in 1..Len(s) :
                            ~IsDigit(s[j]) /\ \A k \in 1..(j - 1) : IsDigit(s[k])) - 1
         IN  <<SubSeq(s, 1, n)>> \o UrlTokens(SubSeq(s, n + 1, Len(s)))
    ELSE LET n == CASE StartsWith(s, jpg) -> 3
                    [] StartsWith(s, jpeg) -> 4
                    [] StartsWith(s, png) -> 3
                    [] StartsWith(s, gif) -> 3
                    [] OTHER -> 0
         IN  IF n = 0 THEN UrlTokens(Tail(s))
             ELSE <<SubSeq(s, 1, n)>> \o UrlTokens(SubSeq(s, n + 1, Len(s)))

\* addUrl(id, url): url is a string or undefined
Images_addUrl(t, nm, id, url) ==
    LET array == IF url.t = "string" /\ url.s # <<>> THEN UrlTokens(url.s) ELSE <<>>
        length == Len(array)
    IN  IF length < 3
        THEN [table |-> t, out |-> ThrowV("Url isn't correct")]
        ELSE Images_add(t, nm, id, Str(array[length - 2]), Str(array[length - 1]),
                        Str(array[length]))

\* The 5 glyphs of one record; a throw of compressNumber is caught and
\* rethrown.
Images_compressOne(obj) ==
    LET a == compressNumber(obj.id, 2)
        b == compressNumber(Num(obj.size + obj.type), 0)
        c == compressNumber(obj.hash, 2)
    IN  IF a.ok /\ b.ok /\ c.ok THEN Ok(a.val \o b.val \o c.val)
        ELSE ThrowS("Error compressing Image")

RECURSIVE Images_compressLoop(_, _, _)
Images_compressLoop(number, ids, index) ==
    IF index > Len(ids) THEN Ok(<<>>)
    ELSE LET one == Images_compressOne(number[Num(ids[index])])
         IN  IF ~one.ok THEN one
             ELSE LET rest == Images_compressLoop(number, ids, index + 1)
                  IN  IF rest.ok THEN Ok(one.val \o rest.val) ELSE rest

\* _compress: the elements of number in ascending index order; the unset
\* slots below number.length are skipped.
Images_compress(t) ==
    Images_compressLoop(
        t.number,
        Sorted({k.n : k \in {x \in DOMAIN t.number : x.t = "number"}}),
        1)

\* The % of JavaScript: the remainder has the sign of the dividend.
JsRem(a, b) == IF a >= 0 THEN a % b ELSE 0 - ((0 - a) % b)

RECURSIVE Images_decompressLoop(_, _, _, _)
Images_decompressLoop(t, nm, array, index) ==
    IF index > Len(array) THEN t
    ELSE LET rec == array[index]
             number == decompressNumber(Str(SubSeq(rec, 3, 3))).val
             mod == JsRem(number, 10)
             obj == [id |-> Num(decompressNumber(Str(SubSeq(rec, 1, 2))).val),
                     size |-> mod,
                     hash |-> Num(decompressNumber(Str(SubSeq(rec, 4, 5))).val),
                     type |-> number - mod]
             name == Names_lookup(nm, obj.id)
         IN  Images_decompressLoop(
                 [number |-> Put(t.number, obj.id, obj),
                  string |-> Put(t.string, PropertyKey(name), obj)],
                 nm, array, index + 1)

EmptyImages == [number |-> EmptyMap, string |-> EmptyMap]

Images_decompress(nm, text) ==
    LET array == IF text.t = "string" /\ text.s # <<>>
                 THEN MatchDots(text.s, 5) ELSE <<>>
    IN  [table |-> Images_decompressLoop(EmptyImages, nm, array, 1),
         out |-> Ok(Bool(TRUE))]

\* lookup(key): the URL of the record under key; reading a field of the
\* undefined of a missing key is a TypeError.
Images_lookup(t, inst, key) ==
    LET held == IF key.t = "number" THEN key \in DOMAIN t.number
                ELSE key.s \in DOMAIN t.string
        obj == IF key.t = "number" THEN t.number[key] ELSE t.string[key.s]
    IN  IF ~held THEN ThrowS("TypeError")
        ELSE Ok(Images_url
                \o (IF obj.size \in DOMAIN Images_sizes(inst)
                    THEN Images_sizes(inst)[obj.size] ELSE UndefinedStr)
                \o <<47>> \o PropertyKey(obj.hash) \o <<46>>
                \o (IF obj.type \in DOMAIN Images_types
                    THEN Images_types[obj.type] ELSE UndefinedStr))

---------------------------------------------------------------------------
(* User, storage.js:454-558.  stats is year -> month -> track -> plays,   *)
(* its keys the integers the property names spell; loved is an array of   *)
(* track ids.  for-in visits integer keys in ascending order.             *)

NewUser(username) == [key |-> username, stats |-> EmptyMap, loved |-> <<>>]

\* A month's line after its month code: the (track, plays) pairs.
RECURSIVE User_compressTracks(_, _, _)
User_compressTracks(month, order, index) ==
    IF index > Len(order) THEN Ok(<<>>)
    ELSE LET a == compressNumber(Num(order[index]), 2)
             b == compressNumber(Num(month[order[index]]), 0)
             rest == User_compressTracks(month, order, index + 1)
         IN  IF ~a.ok THEN a ELSE IF ~b.ok THEN b ELSE IF ~rest.ok THEN rest
             ELSE Ok(a.val \o b.val \o rest.val)

\* The lines of a year's months.
RECURSIVE User_compressMonths(_, _, _)
User_compressMonths(year, order, index) ==
    IF index > Len(order) THEN Ok(<<>>)
    ELSE LET m == compressNumber(Num(order[index]), 0)
             ts == User_compressTracks(year[order[index]],
                                       Sorted(DOMAIN year[order[index]]), 1)
             rest == User_compressMonths(year, order, index + 1)
         IN  IF ~m.ok THEN m ELSE IF ~ts.ok THEN ts ELSE IF ~rest.ok THEN rest
             ELSE Ok(<<m.val \o ts.val>> \o rest.val)

\* The lines of the years: the year's code, then its months.
RECURSIVE User_compressYears(_, _, _)
User_compressYears(stats, order, index) ==
    IF index > Len(order) THEN Ok(<<>>)
    ELSE LET y == compressNumber(Num(order[index]), 0)
             ms == User_compressMonths(stats[order[index]],
                                       Sorted(DOMAIN stats[order[index]]), 1)
             rest == User_compressYears(stats, order, index + 1)
         IN  IF ~y.ok THEN y ELSE IF ~ms.ok THEN ms ELSE IF ~rest.ok THEN rest
             ELSE Ok(<<y.val>> \o ms.val \o rest.val)

User_compress(u) ==
    LET years == User_compressYears(u.stats, Sorted(DOMAIN u.stats), 1)
    IN  IF ~years.ok THEN years
        ELSE Ok(Join(<<JoinNumbers(u.loved, blank)>> \o years.val, <<newline>>))

\* _decompress(text): its first statement reads the identifier test, which
\* nothing declares (text is meant), so the call throws a ReferenceError
\* before it assigns anything.
User_decompress(u, text) == [table |-> u, out |-> ThrowV("ReferenceError")]

---------------------------------------------------------------------------
(* Storage.load and Storage.save, storage.js:42-61, on the object `on`:   *)
(* "n" Names, "t" Tracks, "a" ArtistImages, "b" AlbumImages, "u" the User.*)

Objects == {"n", "t", "a", "b", "u"}

KeyOf(on) == IF on = "u" THEN user.key ELSE on

compress(on) ==
    CASE on = "n" -> Names_compress(names)
      [] on = "t" -> Tracks_compress(tracks)
      [] on = "u" -> User_compress(user)
      [] OTHER -> Images_compress(images[on])

decompress(on, text) ==
    CASE on = "n" -> Names_decompress(text)
      [] on = "t" -> Tracks_decompress(text)
      [] on = "u" -> User_decompress(user, text)
      [] OTHER -> Images_decompress(names, text)

\* The state after on._decompress(text), called as operation op.
Rebuilt(on, text, op) ==
    LET r == decompress(on, text)
    IN  /\ names' = IF on = "n" THEN r.table ELSE names
        /\ tracks' = IF on = "t" THEN r.table ELSE tracks
        /\ images' = IF on \in {"a", "b"} THEN [images EXCEPT ![on] = r.table]
                     ELSE images
        /\ user' = IF on = "u" THEN r.table ELSE user
        /\ issued' = IF on \in {"n", "t"} THEN [issued EXCEPT ![on] = {}]
                     ELSE issued
        /\ saved' = [saved EXCEPT ![on] = FALSE]
        /\ last' = [op |-> op, on |-> on, args |-> <<text>>, out |-> r.out]
        /\ UNCHANGED request

load(on) ==
    /\ Rebuilt(on, store[KeyOf(on)], "load")
    /\ UNCHANGED store

save(on) ==
    LET text == compress(on)
    IN  /\ store' = IF text.ok THEN [store EXCEPT ![KeyOf(on)] = Str(text.val)]
                    ELSE store
        /\ saved' = [saved EXCEPT ![on] = text.ok]
        /\ last' = [op |-> "save", on |-> on, args |-> <<>>, out |-> text]
        /\ UNCHANGED <<names, tracks, images, user, issued, request>>

\* A direct call of on._decompress(text).
Decompress(on, text) ==
    /\ Rebuilt(on, text, "_decompress")
    /\ UNCHANGED store

---------------------------------------------------------------------------
(* The Last.fm API module: one API request.  The request is a record       *)
(*   pc       "idle" before apiRequest, "ajax" while an ajax call is in    *)
(*            flight, "timer" while the 2 second setTimeout is pending,    *)
(*            "done" once the promise is settled;                          *)
(*   attempts the ajax calls made so far;                                  *)
(*   retries  the retries variable of the makeRequest call in flight;      *)
(*   timeout  the timeout of the ajax settings;                            *)
(*   promise  the state of the promise apiRequest returned;                *)
(*   settled  how often deferred.resolve or deferred.reject was called;    *)
(*   status, error  the textStatus and the data.error of the last answer   *)
(*            (error 0: the response has no error).                        *)
(* Each filter returns a new Deferred whose resolve and reject the next    *)
(* makeRequest passes on, so settling the innermost settles the promise.   *)

defaults_timeout == 10000
TimeoutStep == 20000
Retries == 3
RateLimit == 29
OperationFailed == 8

NewRequest ==
    [pc |-> "idle", attempts |-> 0, retries |-> 0, timeout |-> defaults_timeout,
     promise |-> "pending", settled |-> 0, status |-> "", error |-> 0]

\* makeRequest(settings, retries, resolve, reject): one more ajax call.
makeRequest(r, retries) ==
    [r EXCEPT !.pc = "ajax", !.attempts = @ + 1, !.retries = retries]

\* deferred.resolve (how = "resolved") or deferred.reject ("rejected"): a
\* Deferred changes state only while pending.
Settle(r, how) ==
    [r EXCEPT !.pc = "done", !.settled = @ + 1,
              !.promise = IF @ = "pending" THEN how ELSE @]

\* apiRequest(method, params, cache)
apiRequest == makeRequest(NewRequest, Retries)

\* The done filter checkError(retries) returns, called with the data of a
\* response: it never reads retries.
checkError(r, error) ==
    LET a == [r EXCEPT !.status = "success", !.error = error]
    IN  IF error = RateLimit \/ error = OperationFailed
        THEN [a EXCEPT !.pc = "timer"]
        ELSE IF error # 0 THEN Settle(a, "rejected")
        ELSE Settle(a, "resolved")

\* The function checkError hands to setTimeout.
checkErrorTimer(r) == makeRequest(r, Retries)

\* The fail filter retry(retries) returns, called with the textStatus of a
\* failed ajax call.
retry(r, status) ==
    LET a == [r EXCEPT !.status = status, !.error = 0]
        retries == r.retries - 1
    IN  IF retries # 0
        THEN makeRequest(
                 [a EXCEPT !.timeout = IF status = "timeout" THEN @ + TimeoutStep
                                       ELSE @],
                 retries)
        ELSE Settle([a EXCEPT !.retries = retries], "rejected")

---------------------------------------------------------------------------
(* The calls a client makes, one action each. *)

UserName == "nick"

Init ==
    /\ names = EmptyTable
    /\ tracks = EmptyTable
    /\ images = [inst \in {"a", "b"} |-> EmptyImages]
    /\ user = NewUser(UserName)
    /\ store = [k \in {"n", "t", "a", "b", UserName} |-> Undef]
    /\ issued = [on \in {"n", "t"} |-> {}]
    /\ saved = [on \in Objects |-> FALSE]
    /\ last = [op |-> "new", on |-> "", args |-> <<>>, out |-> Ok(Undef)]
    /\ request = NewRequest

\* Names.add(name)
NamesAdd(name) ==
    /\ Length(names.number) < MaxNames
    /\ LET r == Names_add(names, name)
       IN  /\ names' = r.table
           /\ issued' = [issued EXCEPT !["n"] = @ \cup {r.ret}]
           /\ saved' = [saved EXCEPT !["n"] = FALSE]
           /\ last' = [op |-> "add", on |-> "n", args |-> <<Str(name)>>,
                       out |-> Ok(Num(r.ret))]
    /\ UNCHANGED <<tracks, images, user, store, request>>

\* Tracks.add(track)
TracksAdd(track) ==
    /\ Length(tracks.number) < MaxTracks
    /\ LET r == Tracks_add(tracks, track)
       IN  /\ tracks' = r.table
           /\ issued' = [issued EXCEPT !["t"] = @ \cup {r.ret}]
           /\ saved' = [saved EXCEPT !["t"] = FALSE]
           /\ last' = [op |-> "add", on |-> "t",
                       args |-> <<Num(track[1]), Num(track[2]), Num(track[3])>>,
                       out |-> Ok(Num(r.ret))]
    /\ UNCHANGED <<names, images, user, store, request>>

\* ArtistImages.add / AlbumImages.add (id, size, hash, type)
ImagesAdd(inst, id, size, hash, type) ==
    /\ Cardinality(DOMAIN images[inst].number) < MaxImages
    /\ LET r == Images_add(images[inst], names, id, size, hash, type)
       IN  /\ images' = [images EXCEPT ![inst] = r.table]
           /\ saved' = [saved EXCEPT ![inst] = @ /\ r.table = images[inst]]
           /\ last' = [op |-> "add", on |-> inst, args |-> <<id, size, hash, type>>,
                       out |-> r.out]
    /\ UNCHANGED <<names, tracks, user, store, issued, request>>

\* ArtistImages.addUrl / AlbumImages.addUrl (id, url)
ImagesAddUrl(inst, id, url) ==
    /\ Cardinality(DOMAIN images[inst].number) < MaxImages
    /\ LET r == Images_addUrl(images[inst], names, id, url)
       IN  /\ images' = [images EXCEPT ![inst] = r.table]
           /\ saved' = [saved EXCEPT ![inst] = @ /\ r.table = images[inst]]
           /\ last' = [op |-> "addUrl", on |-> inst, args |-> <<id, url>>,
                       out |-> r.out]
    /\ UNCHANGED <<names, tracks, user, store, issued, request>>

\* The client fills the two fields of the User (it has no add of its own).
UserAssign(stats, loved) ==
    /\ user' = [user EXCEPT !.stats = stats, !.loved = loved]
    /\ saved' = [saved EXCEPT !["u"] = @ /\ user' = user]
    /\ last' = [op |-> "assign", on |-> "u", args |-> <<>>, out |-> Ok(Undef)]
    /\ UNCHANGED <<names, tracks, images, store, issued, request>>

\* Radix.fromNumber(number, padding); padding 0 is a call without one.
RadixFromNumber(number, padding) ==
    /\ last' = [op |-> "fromNumber", on |-> "Radix",
                args |-> <<number, Num(padding)>>,
                out |-> fromNumber(number, padding)]
    /\ UNCHANGED <<names, tracks, images, user, store, issued, saved, request>>

\* Radix.toNumber of the string the last fromNumber returned.
RadixToNumber ==
    /\ last.op = "fromNumber"
    /\ last.out.ok
    /\ last' = [op |-> "toNumber", on |-> "Radix",
                args |-> <<Str(last.out.val), last.args[1], last.args[2]>>,
                out |-> toNumber(Str(last.out.val))]
    /\ UNCHANGED <<names, tracks, images, user, store, issued, saved, request>>


tables == <<names, tracks, images, user, store, issued, saved, last>>

\* LastFM(method, params, cache)
ApiRequest ==
    /\ request.pc = "idle"
    /\ request' = apiRequest
    /\ UNCHANGED tables

\* The ajax call in flight succeeds with a response whose data.error is error.
AjaxDone(error) ==
    /\ request.pc = "ajax"
    /\ request' = checkError(request, error)
    /\ UNCHANGED tables

\* The ajax call in flight fails with the textStatus status.
AjaxFail(status) ==
    /\ request.pc = "ajax"
    /\ request' = retry(request, status)
    /\ request'.attempts <= MaxAttempts
    /\ UNCHANGED tables

\* The 2 seconds of the setTimeout have passed.
TimerFires ==
    /\ request.pc = "timer"
    /\ request.attempts < MaxAttempts
    /\ request' = checkErrorTimer(request)
    /\ UNCHANGED tables

---------------------------------------------------------------------------
(* The Radix codec alone. *)

KK == Radix_length * Radix_length

\* The numbers given to Radix.fromNumber: the ends of the 1-, 2- and
\* 3-glyph ranges, numbers with the rixits 8184 and 8185 (whose glyphs are
\* U+2028 and U+2029), a negative number, undefined, a numeric and a
\* non-numeric string.  The integers of the checker are 32-bit, so the
\* 3-glyph numbers stop at 2^31 - 1 (K^3 is about 2^40).
RadixNumbers ==
    {Num(n) : n \in {0, 1, 9, 10, 47, 48, 8184, 8185, Radix_length - 1,
                     Radix_length, Radix_length + 1, 2 * Radix_length + 8184,
                     KK - 1, KK, KK + 1, 8185 * Radix_length + 8184,
                     20 * KK + 4 * Radix_length + 7, 2147483647, -1}}
    \cup {Undef, Str(<<49, 50>>), Str(<<97, 98>>)}

NextRadix ==
    \/ \E number \in RadixNumbers, padding \in 0..MaxWidth :
           RadixFromNumber(number, padding)
    \/ RadixToNumber

SpecRadix == Init /\ [][NextRadix]_vars

\* The number of glyphs of n in base K, for 0 <= n < K^3.
NaturalWidth(n) == IF n < Radix_length THEN 1 ELSE IF n < KK THEN 2 ELSE 3

\* C1: for a non-negative integer n and a width w that is at least the
\* natural width of n, fromNumber(n, w) returns exactly max(w, 1) glyphs,
\* the leading ones the zero glyph, and toNumber of them is n.
C1_RadixRoundTrip ==
    LET n == IF last.op = "fromNumber" THEN last.args[1] ELSE last.args[2]
        w == IF last.op = "fromNumber" THEN last.args[2].n ELSE last.args[3].n
        text == IF last.op = "fromNumber" THEN last.out.val ELSE last.args[1].s
    IN  (/\ last.op \in {"fromNumber", "toNumber"}
         /\ n.t = "number" /\ n.n >= 0
         /\ w >= NaturalWidth(n.n))
        => /\ last.op = "fromNumber" => last.out.ok
           /\ Len(text) = (IF w > 1 THEN w ELSE 1)
           /\ \A i \in 1..(Len(text) - NaturalWidth(n.n)) : text[i] = Code0
           /\ last.op = "toNumber" => last.out.ok /\ last.out.val = n.n

C1_Witness ==
    /\ last.op = "toNumber"
    /\ last.args[2] = Num(20 * KK + 4 * Radix_length + 7)
    /\ last.args[3].n = 4
    /\ last.out = Ok(20 * KK + 4 * Radix_length + 7)

---------------------------------------------------------------------------
(* The Radix codec and the compression of Tracks that rests on it. *)

CodecTracks == {<<0, 1, 2>>, <<1, KK, 2>>}

NextCodec ==
    \/ \E number \in RadixNumbers, padding \in 0..MaxWidth :
           RadixFromNumber(number, padding)
    \/ RadixToNumber
    \/ \E track \in CodecTracks : TracksAdd(track)
    \/ save("t")

SpecCodec == Init /\ [][NextCodec]_vars

Overflowing(t) == \E i \in DOMAIN t.number : \E j \in 1..3 : t.number[i][j] >= KK

\* n >= K^w, for n < K^3 (K^3 itself is beyond the checker's integers).
AtLeastPower(n, w) ==
    CASE w = 0 -> n >= 1
      [] w = 1 -> n >= Radix_length
      [] w = 2 -> n >= KK
      [] OTHER -> FALSE

\* What C2 says, the width of a call fromNumber(n, w) being counted as
\* `width`: the call throws when n >= K^width, no call returns a string
\* that does not decode to n, and Tracks._compress (within save) throws
\* when a stored component is K^2 or more.
NeverSilent(width) ==
    /\ (/\ last.op = "fromNumber"
        /\ last.args[1].t = "number" /\ last.args[1].n >= 0
        /\ AtLeastPower(last.args[1].n, width))
       => ~last.out.ok
    /\ (last.op = "fromNumber" /\ last.args[1].t = "number" /\ last.out.ok)
       => toNumberLoop(0, last.out.val) = last.args[1].n
    /\ (last.op = "save" /\ last.on = "t" /\ Overflowing(tracks))
       => ~last.out.ok

\* C2 as stated: fromNumber(n, w) throws whenever n >= K^w, returns no
\* truncated or wrapped string, and Tracks._compress throws when a stored
\* component is K^2 or more.
C2_AsStated == NeverSilent(IF last.op = "fromNumber" THEN last.args[2].n ELSE 0)

\* C2 as amended: the same, with a width of 0 counted as 1 (n >= K^max(w, 1)).
C2_NeverSilent ==
    NeverSilent(IF last.op = "fromNumber" /\ last.args[2].n > 1
                THEN last.args[2].n ELSE 1)

C2_Witness ==
    /\ last.op = "save" /\ last.on = "t"
    /\ Length(tracks.number) = 2
    /\ tracks.number[1] = <<1, KK, 2>>
    /\ ~last.out.ok

---------------------------------------------------------------------------
(* Names: add, save and load. *)

\* The names given to Names.add: "", "a", "b" and "a\nb".
NameInputs == {<<>>, <<97>>, <<98>>, <<97, newline, 98>>}

NextNames ==
    \/ \E name \in NameInputs : NamesAdd(name)
    \/ save("n")
    \/ load("n")

SpecNames == Init /\ [][NextNames]_vars

NoNewline(t) ==
    \A id \in DOMAIN t.number : \A i \in 1..Len(t.number[id]) : t.number[id][i] # newline

\* The names from id on, in ascending id order, a newline between each two.
RECURSIVE NameLines(_, _)
NameLines(number, id) ==
    IF id >= Length(number) THEN <<>>
    ELSE IF id = Length(number) - 1 THEN number[id]
    ELSE number[id] \o <<newline>> \o NameLines(number, id + 1)

SameLookups(t, u) ==
    /\ \A id \in 0..(MaxNames + 1) : Names_lookup(t, Num(id)) = Names_lookup(u, Num(id))
    /\ \A name \in NameInputs \cup DOMAIN t.string \cup DOMAIN u.string :
           Names_lookup(t, Str(name)) = Names_lookup(u, Str(name))

\* C3: whatever names without a newline were added, _compress yields them
\* joined by newline in ascending id order, and _decompress of that string
\* rebuilds a table whose lookup(id) and lookup(name) are those of the
\* table compressed.
C3_NamesRoundTrip ==
    NoNewline(names)
    => LET text == Names_compress(names)
       IN  /\ text.ok
           /\ text.val = NameLines(names.number, 0)
           /\ SameLookups(Names_decompress(Str(text.val)).table, names)

---------------------------------------------------------------------------
(* Tracks: add, save, load and direct calls of _decompress. *)

\* The triples given to Tracks.add, every component in [0, K^2): small
\* ids, the largest rixit, the largest 2-glyph number, and 8184, whose
\* glyph is U+2028.
TrackInputs ==
    {<<0, 1, 2>>, <<3, 3, 3>>, <<1, 8184, 2>>, <<Radix_length - 1, KK - 1, 0>>}

\* The texts given to Tracks._decompress: undefined, "", "000102",
\* "000102030405", "0001" and "00010".
TrackTexts ==
    {Undef, Str(<<>>), Str(<<48, 48, 48, 49, 48, 50>>),
     Str(<<48, 48, 48, 49, 48, 50, 48, 51, 48, 52, 48, 53>>),
     Str(<<48, 48, 48, 49>>), Str(<<48, 48, 48, 49, 48>>)}

NextTracks ==
    \/ \E track \in TrackInputs : TracksAdd(track)
    \/ save("t")
    \/ load("t")
    \/ \E text \in TrackTexts : Decompress("t", text)

SpecTracks == Init /\ [][NextTracks]_vars

InCapacity(t) ==
    \A id \in DOMAIN t.number : \A j \in 1..3 :
        t.number[id][j] >= 0 /\ t.number[id][j] < KK

\* C4: for a table of triples with components in [0, K^2), _compress emits
\* 6 glyphs per track in ascending id order with no delimiter, and
\* _decompress of that string rebuilds a table whose lookup(id) and lookup
\* of the comma-joined triple are those of the table compressed.
C4_TracksRoundTrip ==
    InCapacity(tracks)
    => LET text == Tracks_compress(tracks)
           back == Tracks_decompress(Str(text.val))
       IN  /\ text.ok
           /\ Len(text.val) = 6 * Cardinality(DOMAIN tracks.number)
           /\ \A id \in DOMAIN tracks.number : \A j \in 1..3 :
                  toNumberLoop(0, SubSeq(text.val, 6 * id + 2 * j - 1, 6 * id + 2 * j))
                      = tracks.number[id][j]
           /\ back.out.ok
           /\ \A id \in 0..(MaxTracks + 1) :
                  Tracks_lookup(back.table, Num(id)) = Tracks_lookup(tracks, Num(id))
           /\ \A key \in DOMAIN tracks.string \cup DOMAIN back.table.string :
                  Tracks_lookup(back.table, Str(key)) = Tracks_lookup(tracks, Str(key))

\* The number of 6-glyph groups of a text (0 for undefined).
Groups(text) == IF text.t = "string" THEN Len(text.s) \div 6 ELSE 0

\* C9: a call of Tracks._decompress(text) that returns, returns true
\* exactly when the number of tracks it rebuilt is the number of 6-glyph
\* groups of text; and it returns true for every string _compress produced
\* (the strings load reads back).
C9_DecompressFlag ==
    (last.on = "t" /\ last.op \in {"load", "_decompress"})
    => /\ last.out.ok
          => ((last.out.val = Bool(TRUE))
              <=> (Length(tracks.number) = Groups(last.args[1])))
       /\ last.op = "load" => last.out = Ok(Bool(TRUE))

---------------------------------------------------------------------------
(* Names and Tracks together: add, load and direct calls of _decompress.  *)

DenseNames == {<<97>>, <<98>>}

DenseTracks == {<<0, 1, 2>>, <<3, 3, 3>>}

\* The texts given to Names._decompress: undefined, "", "a" and "b\na\nb".
NameTexts == {Undef, Str(<<>>), Str(<<97>>), Str(<<98, newline, 97, newline, 98>>)}

NextDense ==
    \/ \E name \in DenseNames : NamesAdd(name)
    \/ \E track \in DenseTracks : TracksAdd(track)
    \/ \E on \in {"n", "t"} : load(on)
    \/ \E text \in NameTexts : Decompress("n", text)
    \/ \E text \in TrackTexts : Decompress("t", text)

SpecDense == Init /\ [][NextDense]_vars

Count(t) == Cardinality(DOMAIN t.number)

\* The id -> value index holds exactly the ids 0..n-1, and every key of
\* the value -> id index maps to an id whose entry is that key's value.
DenseNamesTable(t) ==
    /\ DOMAIN t.number = 0..(Count(t) - 1)
    /\ \A name \in DOMAIN t.string :
           t.string[name] \in DOMAIN t.number /\ t.number[t.string[name]] = name

DenseTracksTable(t) ==
    /\ DOMAIN t.number = 0..(Count(t) - 1)
    /\ \A key \in DOMAIN t.string :
           /\ t.string[key] \in DOMAIN t.number
           /\ JoinNumbers(t.number[t.string[key]], <<comma>>) = key

\* A step that is a call of add on table `on` (t before, u after) returns
\* the number of entries before it, an id not returned since the table
\* was last rebuilt, and adds one entry.
AddReturnsCount(on, t, u) ==
    (last'.op = "add" /\ last'.on = on)
    => /\ last'.out = Ok(Num(Count(t)))
       /\ Count(t) \notin issued[on]
       /\ Count(u) = Count(t) + 1

\* C8: in every state reached by add, load and _decompress calls on Names
\* and Tracks the id -> value index holds exactly the ids 0..n-1, every
\* key of the value -> id index maps to the id of its value, and every add
\* returns n, an id not handed out since the last reload.
C8_DenseIds ==
    /\ [](DenseNamesTable(names) /\ DenseTracksTable(tracks))
    /\ [][AddReturnsCount("n", names, names') /\ AddReturnsCount("t", tracks, tracks')]_vars

C8_Witness ==
    /\ last.op = "add"
    /\ issued["n"] = {1}
    /\ issued["t"] = {1}
    /\ Count(names) = 2
    /\ Count(tracks) = 2

---------------------------------------------------------------------------
(* The image tables over Names: add, addUrl, save and load.  ArtistImages *)
(* takes every input below, AlbumImages one record.                       *)

\* The one name given to Names.add: "b" (added twice, it is a duplicate).
ImageNames == {<<98>>}

\* The ids and names given to add: the id 1, the names "b" and "zz" (never
\* added to Names), and a value that is neither number nor string.
ImageIds == {Num(1), Str(<<98>>), Str(<<122, 122>>), Bool(TRUE)}

\* (size, hash, type) given to add: two records, one of them with the hash
\* 8184 (whose second glyph is U+2028), a size and a type out of the sets.
ImageInputs ==
    {<<Num(34), Num(5), Str(png)>>, <<Num(300), Num(8184), Str(gif)>>,
     <<Num(65), Num(5), Str(jpg)>>, <<Num(64), Num(5), Str(<<98, 109, 112>>)>>}

\* The URLs given to addUrl: "serve/64/7.jpg", "serve/64.jpg" and
\* undefined.
ImageUrls == {Str(<<115, 101, 114, 118, 101, 47, 54, 52, 47, 55, 46, 106, 112, 103>>), Str(<<115, 101, 114, 118, 101, 47, 54, 52, 46, 106, 112, 103>>), Undef}

NextImages ==
    \/ \E name \in ImageNames : NamesAdd(name)
    \/ \E id \in ImageIds, in \in ImageInputs :
           ImagesAdd("a", id, in[1], in[2], in[3])
    \/ ImagesAdd("b", Num(0), Num(64), Num(5), Str(jpg))
    \/ \E url \in ImageUrls : ImagesAddUrl("a", Num(1), url)
    \/ \E inst \in {"a", "b"} : save(inst)
    \/ \E inst \in {"a", "b"} : load(inst)

SpecImages == Init /\ [][NextImages]_vars

ValidSize(v) == v.t = "number" /\ v.n \in {34, 64, 126, 252, 300}

ValidType(v) == v.t = "string" /\ v.s \in {png, jpg, jpeg, gif}

\* idOrName names an entry of Names.
Resolves(v) ==
    \/ v.t = "number" /\ v.n \in DOMAIN names.number
    \/ v.t = "string" /\ v.s \in DOMAIN names.string

SizeClass(v) ==
    CASE v.n = 34 -> 1 [] v.n = 64 -> 2 [] v.n = 126 -> 3 [] v.n = 252 -> 4
      [] OTHER -> 5

\* What a step that is a call inst.add(idOrName, size, hash, type) does,
\* `resolved` telling whether idOrName counts as naming an entry of Names:
\* it throws and changes nothing when the size, the type or idOrName is
\* bad, and otherwise stores one record under the numeric id and the name.
AddChecked(inst, resolved) ==
    LET id == last'.args[1]
        size == last'.args[2]
        type == last'.args[4]
        name == IF id.t = "number" THEN Names_lookup(names, id) ELSE id
        numId == IF id.t = "number" THEN id ELSE Names_lookup(names, id)
    IN  (last'.op = "add" /\ last'.on = inst)
        => IF ValidSize(size) /\ ValidType(type) /\ resolved
           THEN /\ last'.out = Ok(numId)
                /\ DOMAIN images'[inst].number = DOMAIN images[inst].number \cup {numId}
                /\ DOMAIN images'[inst].string
                       = DOMAIN images[inst].string \cup {PropertyKey(name)}
                /\ images'[inst].number[numId] = images'[inst].string[PropertyKey(name)]
                /\ images'[inst].number[numId].size = SizeClass(size)
                /\ images'[inst].number[numId].hash = last'.args[3]
                /\ \A k \in DOMAIN images[inst].number \ {numId} :
                       images'[inst].number[k] = images[inst].number[k]
                /\ \A k \in DOMAIN images[inst].string \ {PropertyKey(name)} :
                       images'[inst].string[k] = images[inst].string[k]
           ELSE ~last'.out.ok /\ images' = images

\* C7: add fails, leaving both indexes as they were, when the size or the
\* type is not of its set or idOrName does not exist in Names; only a call
\* that passes the three checks stores a record, under the numeric id and
\* the resolved name.
C7_AddRejects ==
    [][/\ AddChecked("a", Resolves(last'.args[1]))
       /\ AddChecked("b", Resolves(last'.args[1]))]_vars

\* The records of an image table all belong to entries of Names.
AllResolved(t) ==
    /\ \A k \in DOMAIN t.number : Resolves(k)
    /\ \A name \in DOMAIN t.string : name \in DOMAIN names.string

SameRecord(o, p) ==
    /\ o.size = p.size
    /\ o.type = p.type
    /\ ToNumber(o.hash) = ToNumber(p.hash)

\* C5 for one instance: _compress succeeds with 5 glyphs per record in
\* ascending id order, and _decompress of them, Names unchanged, rebuilds
\* the same records at the same ids and names, with the same URLs.
ImagesRoundTrip(inst) ==
    LET t == images[inst]
        ids == Sorted({k.n : k \in DOMAIN t.number})
        text == Images_compress(t)
        back == Images_decompress(names, Str(text.val)).table
    IN  AllResolved(t)
        => /\ text.ok
           /\ Len(text.val) = 5 * Len(ids)
           /\ \A i \in 1..Len(ids) :
                  toNumberLoop(0, SubSeq(text.val, 5 * i - 4, 5 * i - 3)) = ids[i]
           /\ DOMAIN back.number = DOMAIN t.number
           /\ DOMAIN back.string = DOMAIN t.string
           /\ \A k \in DOMAIN t.number :
                  /\ SameRecord(back.number[k], t.number[k])
                  /\ Images_lookup(back, inst, k) = Images_lookup(t, inst, k)
           /\ \A name \in DOMAIN t.string :
                  SameRecord(back.string[name], t.string[name])

\* C5: an image table filled by successful add / addUrl calls at any ids
\* compresses to 5 glyphs per record in ascending id order and
\* decompresses, Names unchanged, to the same records, names and URLs.
C5_ImagesRoundTrip == ImagesRoundTrip("a") /\ ImagesRoundTrip("b")

---------------------------------------------------------------------------
(* The User: its fields assigned, save and load. *)

\* The stats given to the User: none, {2020: {3: {5: 2}}}, two years with
\* two months and two tracks, and a play count of K (beyond one glyph).
StatsInputs ==
    {EmptyMap,
     (2020 :> (3 :> (5 :> 2))),
     (2019 :> (12 :> (0 :> 1))) @@ (2020 :> ((3 :> (5 :> 2 @@ 8 :> 9)) @@ (4 :> (5 :> 1)))),
     (2020 :> (3 :> (5 :> Radix_length)))}

LovedInputs == {<<>>, <<7, 9>>, <<12>>}

NextUser ==
    \/ \E stats \in StatsInputs, loved \in LovedInputs : UserAssign(stats, loved)
    \/ save("u")
    \/ load("u")

SpecUser == Init /\ [][NextUser]_vars

\* Every year and month fits one glyph, every track id two, every play
\* count one, every loved id two.
WithinCapacity(u) ==
    /\ \A y \in DOMAIN u.stats :
           /\ y >= 0 /\ y < Radix_length
           /\ \A m \in DOMAIN u.stats[y] :
                  /\ m >= 0 /\ m < Radix_length
                  /\ \A t \in DOMAIN u.stats[y][m] :
                         /\ t >= 0 /\ t < KK
                         /\ u.stats[y][m][t] >= 0 /\ u.stats[y][m][t] < Radix_length
    /\ \A i \in 1..Len(u.loved) : u.loved[i] >= 0 /\ u.loved[i] < KK

\* C6: for a User whose stats and loved are within capacity, _compress
\* followed by _decompress of the string it produced completes without
\* error and leaves stats and loved as they were.
C6_UserRoundTrip ==
    WithinCapacity(user)
    => LET text == User_compress(user)
           back == User_decompress(NewUser(user.key), Str(text.val))
       IN  /\ text.ok
           /\ back.out.ok
           /\ back.table.stats = user.stats
           /\ back.table.loved = user.loved

---------------------------------------------------------------------------
(* Every object over the one store: add, save and load. *)

\* The most names and the most tracks added while every object is in play.
MaxShared == 1

NextAll ==
    \/ Length(names.number) < MaxShared /\ NamesAdd(<<97>>)
    \/ Length(tracks.number) < MaxShared /\ TracksAdd(<<0, 8184, 0>>)
    \/ ImagesAdd("a", Num(0), Num(34), Num(5), Str(png))
    \/ UserAssign((2020 :> (3 :> (5 :> 2))), <<7, 9>>)
    \/ \E on \in Objects : save(on)
    \/ \E on \in Objects : load(on)

Spec == Init /\ [][NextAll]_vars

Memory == <<names, tracks, images, user>>

\* Whether the step leaves the object as it is.
Kept(on) ==
    CASE on = "n" -> names' = names
      [] on = "t" -> tracks' = tracks
      [] on = "u" -> user' = user
      [] OTHER -> images'[on] = images[on]

\* C10: a save changes only the store value at the object's own key and no
\* object; a load changes only that object and not the store; and a load
\* of an object saved since it last changed leaves it in the state saved.
C10_Isolation ==
    [][/\ last'.op = "save"
          => /\ Memory' = Memory
             /\ \A k \in DOMAIN store \ {KeyOf(last'.on)} : store'[k] = store[k]
       /\ last'.op = "load"
          => /\ store' = store
             /\ \A on \in Objects : on # last'.on => Kept(on)
             /\ \A on \in Objects : on = last'.on /\ saved[on] => Kept(on)]_vars

---------------------------------------------------------------------------
(* One LastFM API request. *)

\* The data.error of a response: none, the two codes that are retried, and
\* another Last.fm error (6, invalid parameters).
Errors == {0, OperationFailed, RateLimit, 6}

Statuses == {"error", "timeout"}

NextApi ==
    \/ ApiRequest
    \/ \E error \in Errors : AjaxDone(error)
    \/ \E status \in Statuses : AjaxFail(status)
    \/ TimerFires

SpecApi == Init /\ [][NextApi]_vars

\* C11: whatever failures, timeouts and Last.fm errors the ajax calls of
\* one API request produce, at most 3 ajax calls are made, the retries left
\* with a call never exceed 3 less the calls made before it, and the promise
\* is settled exactly once: resolved on a response without error, rejected
\* on another Last.fm error or once the retries are used up.
C11_BoundedRetry ==
    /\ request.attempts <= Retries
    /\ request.pc = "ajax" => request.retries <= Retries - (request.attempts - 1)
    /\ request.settled = (IF request.pc = "done" THEN 1 ELSE 0)
    /\ request.promise = "pending" <=> request.pc # "done"
    /\ request.promise = "resolved"
       => request.status = "success" /\ request.error = 0
    /\ request.promise = "rejected"
       => \/ request.status = "success"
             /\ request.error \notin {0, OperationFailed, RateLimit}
          \/ request.status \in Statuses /\ request.retries = 0

===========================================================================
